---- MODULE Spec2Model ----
(***************************************************************************)
(* A model of codahale/rfc6979: the RFC 6979 deterministic nonce generator *)
(* (generateSecret), its bit/octet conversions, and the two signers        *)
(* SignDSA and SignECDSA.                                                   *)
(*                                                                         *)
(* Byte strings are sequences over 0..255, big integers are TLA+ integers. *)
(* crypto/hmac, math/big and crypto/elliptic are outside the repository:   *)
(* math/big and the curve arithmetic are modelled by what they compute,    *)
(* HMAC by a family of deterministic keyed functions (mode "fn") or by a   *)
(* fresh draw per invocation (mode "draw", used for liveness only).        *)
(***************************************************************************)
EXTENDS Integers, Sequences, FiniteSets, TLC

VARIABLES
    arg,      \* the arguments of the call: variant, group, q, x, hash, alg
    pc,       \* "idle" | "generate" | "loop" | "returned"
    call,     \* 1 for the first invocation, 2 for the repeated one
    V, K,     \* generateSecret's v and k
    T,        \* generateSecret's t
    bx,       \* int2octets(x) || bits2octets(hash)
    iter,     \* completed (rejected) iterations of the outer loop
    ncalls,   \* invocations of test in this call
    r, s,     \* the signer's named results; Nil while unset
    err,      \* the signer's error result; "nil" or "ErrInvalidPublicKey"
    secret,   \* the candidate handed to the last invocation of test
    start,    \* <<v, k>> as set by steps B and C of this call
    trace,    \* one record per outer-loop iteration of this call
    macLog,   \* the MAC invocations of this call: <<key, message, output>>
    first     \* what the first invocation produced, once it has returned

vars == <<arg, pc, call, V, K, T, bx, iter, ncalls, r, s, err, secret,
          start, trace, macLog, first>>

\* A *big.Int result that is still nil
Nil == -1

\* Nothing recorded yet
None == <<>>

----------------------------------------------------------------------------
(* Bounds of the model.                                                    *)

MaxHashLen == 2
MaxReject == 2
MaxIter == 4

----------------------------------------------------------------------------
(* math/big                                                                *)

RECURSIVE Pow2(_)
Pow2(n) == IF n <= 0 THEN 1 ELSE 2 * Pow2(n - 1)

RECURSIVE Pow256(_)
Pow256(n) == IF n <= 0 THEN 1 ELSE 256 * Pow256(n - 1)

\* (*big.Int).BitLen
RECURSIVE BitLen(_)
BitLen(v) == IF v <= 0 THEN 0 ELSE 1 + BitLen(v \div 2)

\* (*big.Int).SetBytes: big-endian unsigned
RECURSIVE SetBytes(_)
SetBytes(b) ==
    IF b = <<>> THEN 0
    ELSE 256 * SetBytes(SubSeq(b, 1, Len(b) - 1)) + b[Len(b)]

\* (*big.Int).Bytes: the minimal big-endian encoding, empty for 0
RECURSIVE Bytes(_)
Bytes(v) == IF v <= 0 THEN <<>> ELSE Append(Bytes(v \div 256), v % 256)

\* (*big.Int).Rsh
Rsh(v, n) == v \div Pow2(n)

\* (*big.Int).Exp(g, k, p)
RECURSIVE Exp(_, _, _)
Exp(g, k, p) ==
    IF k = 0 THEN 1 % p
    ELSE LET h == Exp(g, k \div 2, p)
             h2 == (h * h) % p
         IN IF k % 2 = 1 THEN (h2 * g) % p ELSE h2

\* (*big.Int).ModInverse(k, q) for k invertible mod q
ModInverse(k, q) == CHOOSE i \in 0..(q - 1) : (i * k) % q = 1 % q

\* bytes.Repeat
Repeat(b, n) == [i \in 1..n |-> b]

----------------------------------------------------------------------------
(* The conversions of RFC 6979 section 2.3                                  *)

bits2int(in, qlen) ==
    LET vlen == Len(in) * 8
        v == SetBytes(in)
    IN IF vlen > qlen THEN Rsh(v, vlen - qlen) ELSE v

int2octets_keephigh(v, rolen) ==
    LET out == Bytes(v)
    IN IF Len(out) < rolen
         THEN Repeat(0, rolen - Len(out)) \o out
         ELSE IF Len(out) > rolen THEN SubSeq(out, 1, rolen) ELSE out

int2octets(v, rolen) ==
    LET out == Bytes(v)
    IN IF Len(out) < rolen
         THEN [i \in 1..rolen |->
                 IF i <= rolen - Len(out) THEN 0 ELSE out[i - (rolen - Len(out))]]
         ELSE IF Len(out) > rolen
                THEN [i \in 1..rolen |-> out[Len(out) - rolen + i]]
                ELSE out

bits2octets_nosub(in, q, qlen, rolen) == int2octets(bits2int(in, qlen), rolen)

bits2octets(in, q, qlen, rolen) ==
    LET z1 == bits2int(in, qlen)
        z2 == z1 - q
    IN IF z2 < 0 THEN int2octets(z1, rolen) ELSE int2octets(z2, rolen)

----------------------------------------------------------------------------
(* crypto/hmac, as used by HashAlgorithm.mac                               *)

MacSeeds == {1, 2}
HoLens == {1, 2}
DrawBytes == {0, 2, 200}

Mix(acc, b) == (acc * 131 + b + 1) % 65521

RECURSIVE Fold(_, _)
Fold(b, acc) == IF b = <<>> THEN acc ELSE Fold(Tail(b), Mix(acc, Head(b)))

\* A deterministic keyed function with holen bytes of output.
KeyedHash(seed, holen, k, m) ==
    LET h == Fold(m, Mix(Fold(k, seed), 256))
    IN [i \in 1..holen |-> ((h * (2 * i + 1)) \div (7 * i)) % 256]

\* alg.mac(k, m): the set of outputs the MAC may give.
mac(k, m) ==
    IF arg.mode = "fn"
      THEN {KeyedHash(arg.seed, arg.holen, k, m)}
      ELSE [1..arg.holen -> DrawBytes]

----------------------------------------------------------------------------
(* The groups the signers are called with.                                 *)

NoGroup == [none |-> TRUE]

\* dsa.Parameters: G has order Q modulo P.  Q = 11 and Q = 257 are not
\* byte-aligned.
DSAGroups ==
    { [P |-> 1193, Q |-> 149, G |-> 596],
      [P |-> 263,  Q |-> 131, G |-> 4],
      [P |-> 1543, Q |-> 257, G |-> 64],
      [P |-> 23,   Q |-> 11,  G |-> 2] }

\* elliptic.CurveParams: the base point has prime order N.
Curves ==
    { [P |-> 157, B |-> 1, N |-> 151, Gx |-> 0, Gy |-> 1],
      [P |-> 263, B |-> 1, N |-> 257, Gx |-> 0, Gy |-> 1] }

----------------------------------------------------------------------------
(* crypto/elliptic: a short Weierstrass curve y^2 = x^3 - 3x + B over GF(P) *)
(* with a base point (Gx, Gy) of prime order N, in affine coordinates.      *)

Infinity == [inf |-> TRUE, x |-> 0, y |-> 0]

ModP(v, p) == ((v % p) + p) % p

PointAdd(c, a, b) ==
    IF a.inf THEN b
    ELSE IF b.inf THEN a
    ELSE IF a.x = b.x /\ (a.y + b.y) % c.P = 0 THEN Infinity
    ELSE LET l == IF a.x = b.x
                    THEN ((3 * a.x * a.x + c.P - 3) * ModInverse((2 * a.y) % c.P, c.P)) % c.P
                    ELSE (ModP(b.y - a.y, c.P) * ModInverse(ModP(b.x - a.x, c.P), c.P)) % c.P
             x3 == ModP(l * l - a.x - b.x, c.P)
         IN [inf |-> FALSE, x |-> x3, y |-> ModP(l * ModP(a.x - x3, c.P) - a.y, c.P)]

RECURSIVE ScalarMult(_, _, _)
ScalarMult(c, pt, k) ==
    IF k = 0 THEN Infinity
    ELSE LET h == ScalarMult(c, pt, k \div 2)
             d == PointAdd(c, h, h)
         IN IF k % 2 = 1 THEN PointAdd(c, d, pt) ELSE d

\* The x coordinate of k times the base point, for every scalar below N.
BaseMultiples ==
    [c \in Curves |->
        [k \in 0..(c.N - 1) |->
            ScalarMult(c, [inf |-> FALSE, x |-> c.Gx, y |-> c.Gy], k).x]]

\* Curve.ScalarBaseMult(k.Bytes()), the x coordinate
ScalarBaseMultX(c, k) == BaseMultiples[c][SetBytes(Bytes(k))]

----------------------------------------------------------------------------
(* ecdsa.go                                                                *)

hashToInt(hash, c) ==
    LET orderBits == BitLen(c.N)
        orderBytes == (orderBits + 7) \div 8
        h == IF Len(hash) > orderBytes THEN SubSeq(hash, 1, orderBytes) ELSE hash
        ret == SetBytes(h)
        excess == Len(h) * 8 - orderBits
    IN IF excess > 0 THEN Rsh(ret, excess) ELSE ret

\* The closure SignECDSA hands to generateSecret; r and s are the captured results.
testECDSA(k) ==
    LET c == arg.grp
        inv == ModInverse(k, c.N)
        r1 == ScalarBaseMultX(c, k) % c.N
        e == hashToInt(arg.hash, c)
        s1 == (((arg.x * r1) + e) * inv) % c.N
    IN IF r1 = 0
         THEN [ok |-> FALSE, r |-> r1, s |-> s]
         ELSE [ok |-> s1 # 0, r |-> r1, s |-> s1]

----------------------------------------------------------------------------
(* rfc6979.go: SignDSA's closure                                           *)

\* G^k mod P for every exponent below Q
Powers == [g \in DSAGroups |-> [k \in 0..(g.Q - 1) |-> Exp(g.G, k, g.P)]]

\* new(big.Int).Exp(priv.G, k, priv.P)
ExpG(g, k) == Powers[g][k]

testDSA_unreduced(k) ==
    LET g == arg.grp
        kInv == ModInverse(k, g.Q)
        r1 == ExpG(g, k)
        z == SetBytes(arg.hash)
        s1 == ((((arg.x * r1) + z) % g.Q) * kInv) % g.Q
    IN IF r1 = 0
         THEN [ok |-> FALSE, r |-> r1, s |-> s]
         ELSE [ok |-> s1 # 0, r |-> r1, s |-> s1]

testDSA_noinverse(k) ==
    LET g == arg.grp
        r1 == ExpG(g, k) % g.Q
        z == SetBytes(arg.hash)
        s1 == ((((arg.x * r1) + z) % g.Q) * k) % g.Q
    IN IF r1 = 0
         THEN [ok |-> FALSE, r |-> r1, s |-> s]
         ELSE [ok |-> s1 # 0, r |-> r1, s |-> s1]

testDSA(k) ==
    LET g == arg.grp
        kInv == ModInverse(k, g.Q)
        r1 == ExpG(g, k) % g.Q
        z == SetBytes(arg.hash)
        s1 == ((((arg.x * r1) + z) % g.Q) * kInv) % g.Q
    IN IF r1 = 0
         THEN [ok |-> FALSE, r |-> r1, s |-> s]
         ELSE [ok |-> s1 # 0, r |-> r1, s |-> s1]

\* A caller of generateSecret whose predicate rejects its first nrej
\* invocations and accepts the next one.
testCount(k) == [ok |-> ncalls >= arg.nrej, r |-> r, s |-> s]

test(k) ==
    CASE arg.variant = "dsa" -> testDSA(k)
      [] arg.variant = "ecdsa" -> testECDSA(k)
      [] OTHER -> testCount(k)

----------------------------------------------------------------------------
(* The arguments the calls are made with.                                  *)

HashBytes == {0, 1, 150, 255}
HarnessHashBytes == {1, 255}

SeqsUpTo(S, n) == UNION { [1..l -> S] : l \in 0..n }

Hashes == SeqsUpTo(HashBytes, MaxHashLen)
HarnessHashes == SeqsUpTo(HarnessHashBytes, MaxHashLen)

\* Orders and scalars a direct caller of generateSecret passes, well formed
\* or not.
HarnessOrders == {0, 1, 3, 100, 131, 255, 256, 257, 40000}
HarnessScalars == {0, 1, 130, 256, 70000}

Args(mode, variant, grp, q, x, hash, holen, seed, nrej) ==
    [mode |-> mode, variant |-> variant, grp |-> grp, q |-> q, x |-> x,
     hash |-> hash, holen |-> holen, seed |-> seed, nrej |-> nrej]

FnArgs ==
    { Args("fn", "dsa", g, g.Q, x, h, l, sd, 0) :
        g \in DSAGroups, x \in {1, 57, 130}, h \in Hashes, l \in HoLens, sd \in MacSeeds }
    \cup
    { Args("fn", "ecdsa", c, c.N, d, h, l, sd, 0) :
        c \in Curves, d \in {1, 57, 150}, h \in Hashes, l \in HoLens, sd \in MacSeeds }
    \cup
    { Args("fn", "harness", NoGroup, q, x, h, l, sd, n) :
        q \in HarnessOrders, x \in HarnessScalars, h \in HarnessHashes,
        l \in HoLens, sd \in MacSeeds, n \in 0..MaxReject }

DrawArgs ==
    { Args("draw", "dsa", g, g.Q, 57, <<150>>, 1, 1, 0) :
        g \in { d \in DSAGroups : d.Q \in {11, 131} } }
    \cup
    { Args("draw", "ecdsa", c, c.N, 57, <<150>>, 1, 1, 0) :
        c \in { d \in Curves : d.N = 257 } }
    \cup
    { Args("draw", "harness", NoGroup, q, 1, <<150>>, 1, 1, n) :
        q \in {3, 131, 257, 40000}, n \in {0, 1} }

----------------------------------------------------------------------------
(* State                                                                   *)

Entry(arguments) ==
    /\ arg = arguments
    /\ pc = "idle"
    /\ call = 1
    /\ V = <<>>
    /\ K = <<>>
    /\ T = <<>>
    /\ bx = <<>>
    /\ iter = 0
    /\ ncalls = 0
    /\ r = Nil
    /\ s = Nil
    /\ err = "nil"
    /\ secret = Nil
    /\ start = None
    /\ trace = <<>>
    /\ macLog = {}
    /\ first = None

Init == \E a \in FnArgs : Entry(a)

InitDraw == \E a \in DrawArgs : Entry(a)

Recording == arg.mode = "fn"

Logged(entries) == IF Recording THEN macLog \cup entries ELSE macLog

Bump(n) == IF n <= MaxIter THEN n + 1 ELSE n

----------------------------------------------------------------------------
(* SignDSA, SignECDSA and a direct call of generateSecret                  *)

Aligned_any(n) == TRUE

\* n&7 == 0
Aligned(n) == n % 8 = 0

SignDSA ==
    /\ pc = "idle"
    /\ arg.variant = "dsa"
    /\ LET n == BitLen(arg.grp.Q)
       IN IF ~Aligned(n)
            THEN /\ err' = "ErrInvalidPublicKey"
                 /\ pc' = "returned"
            ELSE /\ err' = err
                 /\ pc' = "generate"
    /\ UNCHANGED <<arg, call, V, K, T, bx, iter, ncalls, r, s, secret,
                   start, trace, macLog, first>>

SignECDSA ==
    /\ pc = "idle"
    /\ arg.variant = "ecdsa"
    /\ pc' = "generate"
    /\ UNCHANGED <<arg, call, V, K, T, bx, iter, ncalls, r, s, err, secret,
                   start, trace, macLog, first>>

CallGenerateSecret ==
    /\ pc = "idle"
    /\ arg.variant = "harness"
    /\ pc' = "generate"
    /\ UNCHANGED <<arg, call, V, K, T, bx, iter, ncalls, r, s, err, secret,
                   start, trace, macLog, first>>

----------------------------------------------------------------------------
(* generateSecret                                                          *)

qlen == BitLen(arg.q)
rolen == (qlen + 7) \div 8

StepB_stale(holen) == IF Len(V) = holen THEN V ELSE Repeat(1, holen)

\* Step B: v = 0x01 repeated holen times
StepB(holen) == Repeat(1, holen)

\* Step C: k = 0x00 repeated holen times
StepC(holen) == Repeat(0, holen)

\* Steps A to G
StepsAtoG ==
    /\ pc = "generate"
    /\ LET v0 == StepB(arg.holen)
           k0 == StepC(arg.holen)
           b == int2octets(arg.x, rolen)
           bh == bits2octets(arg.hash, arg.q, qlen, rolen)
           bx0 == b \o bh
       IN \E k1 \in mac(k0, Append(v0, 0) \o bx0) :
          \E v1 \in mac(k1, v0) :
          \E k2 \in mac(k1, Append(v1, 1) \o bx0) :
          \E v2 \in mac(k2, v1) :
            /\ bx' = bx0
            /\ K' = k2
            /\ V' = v2
            /\ start' = <<v0, k0>>
            /\ macLog' = Logged({ <<k0, Append(v0, 0) \o bx0, k1>>, <<k1, v0, v1>>,
                                  <<k1, Append(v1, 1) \o bx0, k2>>, <<k2, v1, v2>> })
    /\ T' = <<>>
    /\ pc' = "loop"
    /\ UNCHANGED <<arg, call, iter, ncalls, r, s, err, secret, trace, first>>

\* Step H2, one pass of the inner loop
StepH2 ==
    /\ pc = "loop"
    /\ Len(T) < qlen \div 8
    /\ \E v1 \in mac(K, V) :
         /\ V' = v1
         /\ T' = T \o v1
         /\ macLog' = Logged({ <<K, V, v1>> })
    /\ UNCHANGED <<arg, pc, call, K, bx, iter, ncalls, r, s, err, secret,
                   start, trace, first>>

InRange_zero(c, q) == c >= 0 /\ c < q

\* secret.Cmp(1) >= 0 && secret.Cmp(q) < 0
InRange(c, q) == c >= 1 /\ c < q

UpdateByte_one == 0 + 1

\* the byte appended to v in the rejection update
UpdateByte == 0

\* Step H3: secret = bits2int(t, qlen)
Candidate == bits2int(T, qlen)

\* secret.Cmp(1) >= 0 && secret.Cmp(q) < 0 && test(secret)
Tested ==
    IF InRange(Candidate, arg.q)
      THEN test(Candidate)
      ELSE [ok |-> FALSE, r |-> r, s |-> s]

Iteration(v2, k2) ==
    [v |-> V, k |-> K, t |-> T, cand |-> Candidate,
     called |-> InRange(Candidate, arg.q), ok |-> Tested.ok, v2 |-> v2, k2 |-> k2]

\* Step H3 and the test: return on acceptance, else update k and v
StepH3 ==
    /\ pc = "loop"
    /\ ~(Len(T) < qlen \div 8)
    /\ r' = Tested.r
    /\ s' = Tested.s
    /\ ncalls' = IF InRange(Candidate, arg.q) THEN Bump(ncalls) ELSE ncalls
    /\ secret' = IF InRange(Candidate, arg.q) THEN Candidate ELSE secret
    /\ \/ /\ Tested.ok
          /\ pc' = "returned"
          /\ trace' = IF Recording THEN Append(trace, Iteration(V, K)) ELSE trace
          /\ UNCHANGED <<V, K, T, iter, macLog>>
       \/ /\ ~Tested.ok
          /\ Recording => iter < MaxIter
          /\ \E k1 \in mac(K, Append(V, UpdateByte)) :
             \E v1 \in mac(k1, V) :
               /\ K' = k1
               /\ V' = v1
               /\ macLog' = Logged({ <<K, Append(V, UpdateByte), k1>>, <<k1, V, v1>> })
               /\ trace' = IF Recording THEN Append(trace, Iteration(v1, k1)) ELSE trace
          /\ T' = <<>>
          /\ iter' = IF Recording THEN iter + 1 ELSE iter
          /\ pc' = "loop"
    /\ UNCHANGED <<arg, call, bx, err, start, first>>

\* The same call made a second time, after the first has returned.
SecondCall ==
    /\ pc = "returned"
    /\ call = 1
    /\ first' = [r |-> r, s |-> s, err |-> err, secret |-> secret,
                 start |-> start, trace |-> trace]
    /\ call' = 2
    /\ pc' = "idle"
    /\ r' = Nil
    /\ s' = Nil
    /\ err' = "nil"
    /\ secret' = Nil
    /\ start' = None
    /\ trace' = <<>>
    /\ macLog' = {}
    /\ T' = <<>>
    /\ iter' = 0
    /\ ncalls' = 0
    /\ UNCHANGED <<arg, V, K, bx>>

Next ==
    \/ SignDSA
    \/ SignECDSA
    \/ CallGenerateSecret
    \/ StepsAtoG
    \/ StepH2
    \/ StepH3
    \/ SecondCall

Spec == Init /\ [][Next]_vars

\* t is, or can be completed by further MAC outputs to, an in-range candidate.
RECURSIVE Promising(_)
Promising(t) ==
    IF Len(t) < qlen \div 8
      THEN \E v \in [1..arg.holen -> DrawBytes] : Promising(t \o v)
      ELSE InRange(bits2int(t, qlen), arg.q)

\* Every MAC invocation draws afresh: the draws that lead to an in-range
\* candidate are not withheld for ever.
FreshInRange(n) ==
    /\ StepH2
    /\ Len(T) = n
    /\ Promising(T')

LiveSpec ==
    /\ InitDraw
    /\ [][Next]_vars
    /\ WF_vars(Next)
    /\ \A n \in {0, 1, 2} : SF_vars(FreshInRange(n))

----------------------------------------------------------------------------
(* Properties                                                              *)

Entries == { trace[i] : i \in 1..Len(trace) }

\* generateSecret has computed bx in this call
Running == start # None

\* The rolen-byte big-endian encoding of v, for 0 <= v < 256^n
Octets(v, n) == [i \in 1..n |-> (v \div Pow256(n - i)) % 256]

\* C1: every candidate handed to test satisfies 1 <= candidate < q; a
\* candidate that is 0 or >= q is rejected without test being invoked.
C1_RangeInvariant ==
    /\ \A e \in Entries :
         /\ e.called => (1 <= e.cand /\ e.cand < arg.q)
         /\ (e.cand = 0 \/ e.cand >= arg.q) => (~e.called /\ ~e.ok)
    /\ secret # Nil => (1 <= secret /\ secret < arg.q)
    /\ ncalls = Cardinality({ i \in 1..Len(trace) : trace[i].called })

C1_Witness ==
    /\ \E e \in Entries : e.called
    /\ \E e \in Entries : ~e.called /\ e.cand >= arg.q /\ arg.q >= 2
    /\ \E e \in Entries : ~e.called /\ e.cand = 0

Truncated(hash, n) == IF Len(hash) > n THEN SubSeq(hash, 1, n) ELSE hash

Verifies(g, y, hash, rr, ss) ==
    /\ rr \in 1..(g.Q - 1)
    /\ ss \in 1..(g.Q - 1)
    /\ LET w == ModInverse(ss, g.Q)
           z == SetBytes(Truncated(hash, BitLen(g.Q) \div 8))
           u1 == (z * w) % g.Q
           u2 == (rr * w) % g.Q
       IN ((Exp(g.G, u1, g.P) * Exp(y, u2, g.P)) % g.P) % g.Q = rr

SignedDSA ==
    /\ arg.variant = "dsa"
    /\ pc = "returned"
    /\ err = "nil"
    /\ arg.x \in 1..(arg.q - 1)

\* C3 as stated: for a digest of any length, the pair SignDSA returns passes
\* the standard verification of that digest.
C3_VerifiesAnyDigest ==
    SignedDSA => Verifies(arg.grp, Exp(arg.grp.G, arg.x, arg.grp.P), arg.hash, r, s)

\* C3: for a digest no longer than the byte length of q, the pair SignDSA
\* returns passes the standard verification of that digest.
C3_VerifiesShortDigest ==
    (SignedDSA /\ Len(arg.hash) <= BitLen(arg.q) \div 8) =>
        Verifies(arg.grp, Exp(arg.grp.G, arg.x, arg.grp.P), arg.hash, r, s)

C3_Witness ==
    /\ SignedDSA
    /\ Len(arg.hash) = BitLen(arg.q) \div 8
    /\ SetBytes(arg.hash) >= arg.q
    /\ arg.x > 1

\* C4: when bitlength(q) is not a multiple of 8 SignDSA returns
\* ErrInvalidPublicKey with r and s unset and without generateSecret, the MAC
\* or the predicate having run; when it is, SignDSA returns a nil error.
C4_DomainCheck ==
    arg.variant = "dsa" =>
        IF BitLen(arg.grp.Q) % 8 # 0
          THEN /\ pc \in {"idle", "returned"}
               /\ r = Nil /\ s = Nil
               /\ start = None /\ macLog = {} /\ ncalls = 0 /\ trace = <<>>
               /\ pc = "returned" => err = "ErrInvalidPublicKey"
          ELSE err = "nil"

C4_Witness ==
    /\ arg.variant = "dsa"
    /\ pc = "returned"
    /\ err = "ErrInvalidPublicKey"
    /\ BitLen(arg.grp.Q) > 8

\* C5: when SignDSA or SignECDSA returns without error, r and s are in
\* [1, q-1] and are the values computed from the candidate accepted in the
\* last invocation of the predicate.
C5_ReturnedSignature ==
    (arg.variant \in {"dsa", "ecdsa"} /\ pc = "returned" /\ err = "nil") =>
        /\ r \in 1..(arg.q - 1)
        /\ s \in 1..(arg.q - 1)
        /\ trace # <<>>
        /\ LET e == trace[Len(trace)]
               h == IF arg.variant = "dsa" THEN SetBytes(arg.hash)
                                           ELSE hashToInt(arg.hash, arg.grp)
               gk == IF arg.variant = "dsa" THEN Exp(arg.grp.G, e.cand, arg.grp.P)
                                            ELSE ScalarBaseMultX(arg.grp, e.cand)
           IN /\ e.called /\ e.ok /\ e.cand = secret
              /\ r = gk % arg.q
              /\ \E kInv \in 1..(arg.q - 1) :
                   /\ (kInv * e.cand) % arg.q = 1
                   /\ s = (((arg.x * r + h) % arg.q) * kInv) % arg.q

C5_Witness ==
    /\ arg.variant \in {"dsa", "ecdsa"}
    /\ pc = "returned"
    /\ err = "nil"
    /\ \E i \in 1..(Len(trace) - 1) : trace[i].called /\ ~trace[i].ok

\* C6: int2octets(value, rolen) is the rolen-byte big-endian encoding of
\* value mod 256^rolen.
C6_Int2Octets ==
    Running =>
        /\ Len(bx) = 2 * rolen
        /\ SubSeq(bx, 1, rolen) = Octets(arg.x % Pow256(rolen), rolen)

C6_Witness ==
    /\ Running
    /\ rolen >= 1
    /\ arg.x >= Pow256(rolen)
    /\ SubSeq(bx, 1, rolen) # Repeat(0, rolen)

\* C7: with a predicate that rejects its first N invocations and accepts the
\* next, generateSecret invokes it exactly N+1 times, N of them rejected, and
\* returns; every rejection is followed by K = mac(K, V || 0x00),
\* V = mac(K, V); and the (V, K) states at the invocations are pairwise
\* distinct.
C7_Rejections ==
    arg.variant = "harness" =>
        /\ ncalls <= arg.nrej + 1
        /\ pc = "returned" =>
             /\ ncalls = arg.nrej + 1
             /\ Cardinality({ i \in 1..Len(trace) : trace[i].called /\ ~trace[i].ok }) = arg.nrej
             /\ trace[Len(trace)].ok
        /\ \A e \in Entries :
             ~e.ok => /\ e.k2 \in mac(e.k, Append(e.v, 0))
                      /\ e.v2 \in mac(e.k2, e.v)
        /\ \A i, j \in 1..Len(trace) :
             (i < j /\ trace[i].called /\ trace[j].called) =>
                 <<trace[i].v, trace[i].k>> # <<trace[j].v, trace[j].k>>

C7_Witness ==
    /\ arg.variant = "harness"
    /\ pc = "returned"
    /\ arg.nrej >= 2
    /\ ncalls = arg.nrej + 1
    /\ \E e \in Entries : ~e.called

\* C8: for every well-formed input and a predicate that accepts every
\* in-range candidate generateSecret eventually returns, and it returns only
\* in a step where the predicate has accepted an in-range candidate.
WellFormed ==
    /\ arg.variant = "harness"
    /\ arg.nrej = 0
    /\ arg.q >= 2
    /\ arg.x \in 1..(arg.q - 1)
    /\ arg.holen >= 1

C8_Termination ==
    /\ (WellFormed /\ pc = "generate") ~> (pc = "returned")
    /\ [][(pc = "loop" /\ pc' = "returned") =>
            (ncalls' = ncalls + 1 /\ InRange(secret', arg.q))]_vars

\* C9: bits2octets(input, q, qlen, rolen) is the rolen-byte encoding of
\* z1 mod q, z1 being input shifted right by max(0, 8*len(input) - qlen).
C9_Bits2Octets ==
    (Running /\ arg.q >= 1) =>
        LET excess == 8 * Len(arg.hash) - qlen
            z1 == IF excess > 0 THEN SetBytes(arg.hash) \div Pow2(excess)
                                ELSE SetBytes(arg.hash)
        IN /\ z1 % arg.q < Pow256(rolen)
           /\ SubSeq(bx, rolen + 1, 2 * rolen) = Octets(z1 % arg.q, rolen)

C9_Witness ==
    /\ Running
    /\ arg.q >= 2
    /\ 8 * Len(arg.hash) > qlen
    /\ SetBytes(arg.hash) \div Pow2(8 * Len(arg.hash) - qlen) >= arg.q

\* C10: in every iteration the string T handed to bits2int holds at least
\* qlen bits.
C10_BitCoverage ==
    \A e \in Entries : 8 * Len(e.t) >= qlen

====
